---------------------------- MODULE Spec2Model ----------------------------
(***************************************************************************)
(* A model of the movie catalog manager (src/main.py).                     *)
(*                                                                         *)
(* Text is a sequence of one-character strings.  A Python value is a       *)
(* record tagged by t: "int", "float", "str", "list" or "dict"; a dict is  *)
(* its items in insertion order.  A decimal number is m * 10^(-e).  The    *)
(* persisted document is absent, unreadable, or a text; a text is either   *)
(* not JSON or a JSON value whose numbers are still text, so that          *)
(* json.dump and json.load are conversions and not the identity.           *)
(***************************************************************************)
EXTENDS Integers, Sequences, FiniteSets, TLC

--------------------------------------------------------------------------
(* Bounds of the model *)

\* how many times save_movies may hit an I/O failure in one run
MaxFailures == 1

(* Literals of the program *)

MinRating == 0
MaxRating == 10
MinYear == 1800
MaxYear == 2024

--------------------------------------------------------------------------
(* Text *)

Digits == {"0", "1", "2", "3", "4", "5", "6", "7", "8", "9"}

DigitVal(c) ==
  CASE c = "0" -> 0 [] c = "1" -> 1 [] c = "2" -> 2 [] c = "3" -> 3
    [] c = "4" -> 4 [] c = "5" -> 5 [] c = "6" -> 6 [] c = "7" -> 7
    [] c = "8" -> 8 [] c = "9" -> 9

DigitChar(d) ==
  CASE d = 0 -> "0" [] d = 1 -> "1" [] d = 2 -> "2" [] d = 3 -> "3"
    [] d = 4 -> "4" [] d = 5 -> "5" [] d = 6 -> "6" [] d = 7 -> "7"
    [] d = 8 -> "8" [] d = 9 -> "9"

SetMin(S) == CHOOSE x \in S : \A y \in S : x <= y
SetMax(S) == CHOOSE x \in S : \A y \in S : y <= x

RECURSIVE Pow10(_)
Pow10(n) == IF n = 0 THEN 1 ELSE 10 * Pow10(n - 1)

\* str.strip(): leading and trailing whitespace removed
Strip(s) ==
  LET keep == {i \in 1..Len(s) : s[i] # " "}
  IN IF keep = {} THEN <<>> ELSE SubSeq(s, SetMin(keep), SetMax(keep))

AllDigits(s) == \A i \in 1..Len(s) : s[i] \in Digits

\* the value of a run of decimal digits
RECURSIVE DigitsVal(_)
DigitsVal(s) ==
  IF s = <<>> THEN 0
  ELSE 10 * DigitsVal(SubSeq(s, 1, Len(s) - 1)) + DigitVal(s[Len(s)])

\* the decimal digits of a natural number
RECURSIVE NatText(_)
NatText(n) ==
  IF n < 10 THEN <<DigitChar(n)>>
  ELSE Append(NatText(n \div 10), DigitChar(n % 10))

HasSign(s) == s # <<>> /\ s[1] \in {"+", "-"}
Unsigned(s) == IF HasSign(s) THEN Tail(s) ELSE s
Signum(s) == IF s # <<>> /\ s[1] = "-" THEN -1 ELSE 1

--------------------------------------------------------------------------
(* Numbers *)

\* a decimal m * 10^(-e) with no trailing zero in its fraction
RECURSIVE Norm(_, _)
Norm(m, e) ==
  IF e > 0 /\ m % 10 = 0 THEN Norm(m \div 10, e - 1) ELSE [m |-> m, e |-> e]

PyInt(v) == [t |-> "int", m |-> v, e |-> 0]
PyFloat(m, e) == [t |-> "float", m |-> Norm(m, e).m, e |-> Norm(m, e).e]
IsNumber(x) == x.t \in {"int", "float"}

\* Python's comparison of two numbers
NumLe(x, y) == x.m * Pow10(y.e) <= y.m * Pow10(x.e)
NumEq(x, y) == x.m * Pow10(y.e) = y.m * Pow10(x.e)

ValueError == [ok |-> FALSE, kind |-> "ValueError", val |-> PyInt(0)]
Parsed(v) == [ok |-> TRUE, kind |-> "finite", val |-> v]

\* int(text): surrounding whitespace, an optional sign, decimal digits
ParseInt(text) ==
  LET s == Strip(text)
      d == Unsigned(s)
  IN IF d # <<>> /\ AllDigits(d)
     THEN Parsed(PyInt(Signum(s) * DigitsVal(d)))
     ELSE ValueError

\* float(text): surrounding whitespace, an optional sign, then nan, inf, or
\* digits with at most one point and at least one digit (no exponent)
ParseFloat(text) ==
  LET s == Strip(text)
      d == Unsigned(s)
      points == {i \in 1..Len(d) : d[i] = "."}
      p == IF points = {} THEN Len(d) + 1 ELSE SetMin(points)
      whole == SubSeq(d, 1, p - 1)
      frac == SubSeq(d, p + 1, Len(d))
  IN IF d = <<"n", "a", "n">> THEN [ok |-> TRUE, kind |-> "nan", val |-> PyInt(0)]
     ELSE IF d = <<"i", "n", "f">>
       THEN [ok |-> TRUE, kind |-> "inf", val |-> PyInt(Signum(s))]
     ELSE IF /\ Cardinality(points) <= 1
             /\ AllDigits(whole) /\ AllDigits(frac)
             /\ Len(whole) + Len(frac) > 0
       THEN Parsed(PyFloat(Signum(s) * (DigitsVal(whole) * Pow10(Len(frac))
                                         + DigitsVal(frac)), Len(frac)))
     ELSE ValueError

\* repr of an int
FormatInt(x) ==
  IF x.m < 0 THEN <<"-">> \o NatText(-x.m) ELSE NatText(x.m)

\* a float written as "%d" would write it
FormatFloat_Whole(x) ==
  (IF x.m < 0 THEN <<"-">> ELSE <<>>)
    \o NatText((IF x.m < 0 THEN -x.m ELSE x.m) \div Pow10(x.e))

\* repr of a float: the shortest decimal, always with a fraction
FormatFloat(x) ==
  LET a == IF x.m < 0 THEN -x.m ELSE x.m
      whole == NatText(a \div Pow10(x.e))
      f == a % Pow10(x.e)
      ftext == IF x.e = 0 THEN <<"0">>
               ELSE [i \in 1..x.e |-> DigitChar((f \div Pow10(x.e - i)) % 10)]
  IN (IF x.m < 0 THEN <<"-">> ELSE <<>>) \o whole \o <<".">> \o ftext

--------------------------------------------------------------------------
(* Python values and dicts *)

PyStr(s) == [t |-> "str", s |-> s]
PyList == [t |-> "list"]
PyDict(items) == [t |-> "dict", items |-> items]

Item(k, v) == [key |-> k, value |-> v]

\* key in d
DictHas(d, k) == \E i \in 1..Len(d) : d[i].key = k

\* d[key], for a key that is in d
DictGet(d, k) == d[CHOOSE i \in 1..Len(d) : d[i].key = k].value

\* an insert that does not look for the key
DictSet_Append(d, k, v) == Append(d, Item(k, v))

\* d[key] = value: an existing key keeps its place, a new one goes last
DictSet(d, k, v) ==
  IF DictHas(d, k)
  THEN [i \in 1..Len(d) |-> IF d[i].key = k THEN Item(k, v) ELSE d[i]]
  ELSE Append(d, Item(k, v))

\* a delete that drops the key and what was inserted after it
DictDel_Truncate(d, k) ==
  SubSeq(d, 1, (CHOOSE i \in 1..Len(d) : d[i].key = k) - 1)

\* del d[key]
DictDel(d, k) == SelectSeq(d, LAMBDA it : it.key # k)

Keys(d) == {d[i].key : i \in 1..Len(d)}

--------------------------------------------------------------------------
(* JSON text *)

NotJson == [j |-> "invalid"]
JNum(text) == [j |-> "number", text |-> text]
JStr(text) == [j |-> "string", text |-> text]
JArr == [j |-> "array"]
JObj(members) == [j |-> "object", members |-> members]

\* json.dump of a Python value
RECURSIVE Dumps(_)
Dumps(v) ==
  CASE v.t = "int" -> JNum(FormatInt(v))
    [] v.t = "float" -> JNum(FormatFloat(v))
    [] v.t = "str" -> JStr(v.s)
    [] v.t = "list" -> JArr
    [] v.t = "dict" ->
         JObj([i \in 1..Len(v.items) |->
                 Item(v.items[i].key, Dumps(v.items[i].value))])

\* json.load of a JSON value: a number with a point is a float, a repeated
\* key keeps its first place and its last value
RECURSIVE Loads(_)
RECURSIVE LoadMembers(_, _)
Loads(x) ==
  CASE x.j = "number" ->
         IF \E i \in 1..Len(x.text) : x.text[i] = "."
         THEN ParseFloat(x.text).val ELSE ParseInt(x.text).val
    [] x.j = "string" -> PyStr(x.text)
    [] x.j = "array" -> PyList
    [] x.j = "object" -> PyDict(LoadMembers(x.members, <<>>))
LoadMembers(ms, acc) ==
  IF ms = <<>> THEN acc
  ELSE LoadMembers(Tail(ms), DictSet(acc, Head(ms).key, Loads(Head(ms).value)))

--------------------------------------------------------------------------
(* The persisted document movies.json *)

Absent == [kind |-> "absent"]
Unreadable == [kind |-> "unreadable"]
FileText(x) == [kind |-> "text", json |-> x]

Said(m) == [msg |-> m]

\* load_movies: what main gets from it
\*   raised: the exception that leaves load_movies, or "none"
load_movies(f) ==
  CASE f.kind = "absent" ->
         [raised |-> "none", movies |-> <<>>, out |-> <<>>]
    [] f.kind = "unreadable" ->
         [raised |-> "OSError", movies |-> <<>>, out |-> <<>>]
    [] f.kind = "text" /\ f.json.j = "invalid" ->
         [raised |-> "none", movies |-> <<>>, out |-> <<>>]
    [] f.kind = "text" /\ f.json.j \notin {"invalid", "object"} ->
         [raised |-> "none", movies |-> <<>>,
          out |-> <<Said("Data format error. Resetting to an empty dictionary.")>>]
    [] f.kind = "text" /\ f.json.j = "object" ->
         [raised |-> "none", movies |-> Loads(f.json).items, out |-> <<>>]

\* the outcomes of writing the file: written; open() fails and the file is
\* as it was; the write fails after open() truncated the file
IoOutcomes == {"ok", "open_fails", "write_fails"}

\* a save that swallows the error without a word
save_movies_Silent(f, movies, io) ==
  CASE io = "ok" -> [file |-> FileText(Dumps(PyDict(movies))), out |-> <<>>]
    [] io = "open_fails" -> [file |-> f, out |-> <<>>]
    [] io = "write_fails" -> [file |-> FileText(NotJson), out |-> <<>>]

save_movies(f, movies, io) ==
  CASE io = "ok" ->
         [file |-> FileText(Dumps(PyDict(movies))), out |-> <<>>]
    [] io = "open_fails" ->
         [file |-> f, out |-> <<Said("Error saving movies. Please try again.")>>]
    [] io = "write_fails" ->
         [file |-> FileText(NotJson),
          out |-> <<Said("Error saving movies. Please try again.")>>]

--------------------------------------------------------------------------
(* The operations on the in-memory movies dict *)

RATING == <<"r", "a", "t", "i", "n", "g">>
YEAR == <<"y", "e", "a", "r">>

\* what input() gives at end of input, and the place of a prompt not reached
EOF == <<"<EOF>">>
None == <<"<none>">>

\* the exception details[key] raises, or "none"
Subscript(details, k) ==
  IF details.t # "dict" THEN "TypeError"
  ELSE IF ~DictHas(details.items, k) THEN "KeyError"
  ELSE "none"

\* {'rating': rating, 'year': year}
Movie(rating, year) == PyDict(<<Item(RATING, rating), Item(YEAR, year)>>)

\* a range check that forgot the upper end
RatingInRange_NoUpperEnd(r) ==
  r.kind = "finite" /\ NumLe(PyFloat(MinRating, 0), r.val)

\* 0.0 <= rating <= 10.0
RatingInRange(r) ==
  /\ r.kind = "finite"
  /\ NumLe(PyFloat(MinRating, 0), r.val)
  /\ NumLe(r.val, PyFloat(MaxRating, 0))

\* not (year < 1800 or year > 2024)
YearInRange(y) == ~(y.val.m < MinYear \/ y.val.m > MaxYear)

\* float(input(...)) with the range check: the rating, or ValueError
ReadRating(text) ==
  LET r == ParseFloat(text)
  IN IF r.ok /\ RatingInRange(r) THEN Parsed(r.val) ELSE ValueError

\* int(input(...)) with the range check: the year, or ValueError
ReadYear(text) ==
  LET y == ParseInt(text)
  IN IF y.ok /\ YearInRange(y) THEN Parsed(y.val) ELSE ValueError

\* the title prompt and its loop: the first answer that is not blank,
\* stripped; EOF when input ends first
RECURSIVE ReadTitle(_)
ReadTitle(lines) ==
  IF lines = <<>> \/ Head(lines) = EOF THEN EOF
  ELSE IF Strip(Head(lines)) # <<>> THEN Strip(Head(lines))
  ELSE ReadTitle(Tail(lines))

Outcome(m, f, o, exc, sv) ==
  [movies |-> m, file |-> f, out |-> o, raised |-> exc, saved |-> sv]

\* add_movie, given the answers to its prompts (None for a prompt it does
\* not reach) and the outcome of the write
add_movie(movies, f, lines, ratingText, yearText, io) ==
  LET title == ReadTitle(lines)
      rating == ReadRating(ratingText)
      year == ReadYear(yearText)
      added == DictSet(movies, title, Movie(rating.val, year.val))
      saved == save_movies(f, added, io)
  IN IF title = EOF \/ ratingText = EOF
       THEN Outcome(movies, f, <<>>, "EOFError", FALSE)
     ELSE IF ~rating.ok
       THEN Outcome(movies, f,
              <<Said("Invalid rating. Please enter a number between 0.0 and 10.0.")>>,
              "none", FALSE)
     ELSE IF yearText = EOF
       THEN Outcome(movies, f, <<>>, "EOFError", FALSE)
     ELSE IF ~year.ok
       THEN Outcome(movies, f, <<Said("Invalid year. Please enter a valid year.")>>,
              "none", FALSE)
     ELSE Outcome(added, saved.file,
            saved.out \o <<[msg |-> "added successfully", title |-> title]>>,
            "none", TRUE)

\* list_movies: the lines printed, and the exception raised by the first
\* entry that has no rating or year to print
ListLine(it) ==
  [msg |-> "movie", title |-> it.key,
   rating |-> DictGet(it.value.items, RATING),
   year |-> DictGet(it.value.items, YEAR)]

EntryError(it) ==
  IF Subscript(it.value, RATING) # "none" THEN Subscript(it.value, RATING)
  ELSE Subscript(it.value, YEAR)

list_movies(movies, f) ==
  LET bad == {i \in 1..Len(movies) : EntryError(movies[i]) # "none"}
      n == IF bad = {} THEN Len(movies) ELSE SetMin(bad) - 1
      printed == <<Said("Movies in your collection:")>>
                   \o [i \in 1..n |-> ListLine(movies[i])]
  IN IF movies = <<>>
       THEN Outcome(movies, f, <<Said("No movies found.")>>, "none", FALSE)
     ELSE IF bad # {}
       THEN Outcome(movies, f, printed, EntryError(movies[SetMin(bad)]), FALSE)
     ELSE Outcome(movies, f, printed, "none", FALSE)

\* delete_movie, given the answer to its prompt and the outcome of the write
delete_movie(movies, f, titleText, io) ==
  LET title == Strip(titleText)
      left == DictDel(movies, title)
      saved == save_movies(f, left, io)
  IN IF titleText = EOF
       THEN Outcome(movies, f, <<>>, "EOFError", FALSE)
     ELSE IF DictHas(movies, title)
       THEN Outcome(left, saved.file,
              saved.out \o <<[msg |-> "deleted successfully", title |-> title]>>,
              "none", TRUE)
     ELSE Outcome(movies, f, <<[msg |-> "not found", title |-> title]>>,
            "none", FALSE)

\* max(ratings) and min(ratings): of equal values the first one met
RECURSIVE MaxOf(_, _)
MaxOf(xs, best) ==
  IF xs = <<>> THEN best
  ELSE MaxOf(Tail(xs), IF NumLe(Head(xs), best) THEN best ELSE Head(xs))

RECURSIVE MinOf(_, _)
MinOf(xs, best) ==
  IF xs = <<>> THEN best
  ELSE MinOf(Tail(xs), IF NumLe(best, Head(xs)) THEN best ELSE Head(xs))

\* [title for title, details in movies.items() if details['rating'] == r]
TitlesRated(movies, r) ==
  LET hit == SelectSeq(movies, LAMBDA it : NumEq(DictGet(it.value.items, RATING), r))
  IN [i \in 1..Len(hit) |-> hit[i].key]

\* display_statistics: the mean and the median are printed but their values
\* are not part of the model
display_statistics(movies, f) ==
  LET bad == {i \in 1..Len(movies) : Subscript(movies[i].value, RATING) # "none"}
      ratings == [i \in 1..Len(movies) |-> DictGet(movies[i].value.items, RATING)]
      max_rating == MaxOf(Tail(ratings), Head(ratings))
      min_rating == MinOf(Tail(ratings), Head(ratings))
  IN IF movies = <<>>
       THEN Outcome(movies, f, <<Said("No movies found.")>>, "none", FALSE)
     ELSE IF bad # {}
       THEN Outcome(movies, f, <<>>, Subscript(movies[SetMin(bad)].value, RATING), FALSE)
     ELSE IF \E i \in 1..Len(ratings) : ~IsNumber(ratings[i])
       THEN Outcome(movies, f, <<>>, "TypeError", FALSE)
     ELSE Outcome(movies, f,
            << Said("Average rating"), Said("Median rating"),
               [msg |-> "Best movies", rating |-> max_rating,
                titles |-> TitlesRated(movies, max_rating)],
               [msg |-> "Worst movies", rating |-> min_rating,
                titles |-> TitlesRated(movies, min_rating)] >>,
            "none", FALSE)

--------------------------------------------------------------------------
(* What the user types and what the file holds at start *)

A == <<"A">>
B == <<"B">>
C == <<"C">>
Blank == <<" ">>

\* answers to the title prompts, up to the one add_movie takes
TitleLines ==
  { <<A>>, <<Blank, <<" ", "B", " ">> >>, << <<>>, Blank, A >>, <<Blank, EOF>> }

\* answers to the rating prompt
RatingInputs ==
  { <<"0">>, <<" ", "1", "0", ".", "0">>, <<"1", "0", ".", "1">>, <<"a", "b", "c">> }

\* answers to the year prompt
YearInputs == { <<"2", "0", "2", "4">>, <<"2", "0", "2", "5">>, <<"a", "b", "c">> }

\* answers to the delete prompt
DeleteInputs == {A, <<" ", "B", " ">>, C, <<>>}

\* answers to "Choose an option"
MenuInputs ==
  { <<"0">>, <<"1">>, <<"2">>, <<"3">>, <<"4">>, <<" ", "4", " ">>,
    <<"5">>, <<"-", "1">>, <<"a", "b", "c">>, <<>>, <<"1", ".", "0">>, EOF }

JMovie(ratingText, yearText) ==
  JObj(<<Item(RATING, JNum(ratingText)), Item(YEAR, JNum(yearText))>>)

\* movies.json as the program may find it
InitialFiles ==
  { Absent,
    Unreadable,
    FileText(NotJson),
    FileText(JArr),
    \* {"C": {"rating": 10, "year": 1800}, "C": {"rating": 7.5, "year": 1999}}
    FileText(JObj(<< Item(C, JMovie(<<"1", "0">>, <<"1", "8", "0", "0">>)),
                     Item(C, JMovie(<<"7", ".", "5">>, <<"1", "9", "9", "9">>)) >>)),
    \* {"": {"rating": 11.0, "year": 1799}}
    FileText(JObj(<< Item(<<>>, JMovie(<<"1", "1", ".", "0">>, <<"1", "7", "9", "9">>)) >>)),
    \* {"C": {"year": 2024}}
    FileText(JObj(<< Item(C, JObj(<<Item(YEAR, JNum(<<"2", "0", "2", "4">>))>>)) >>)),
    \* {"C": 5}
    FileText(JObj(<< Item(C, JNum(<<"5">>)) >>)),
    \* {"C": {"rating": "abc", "year": 2024}}
    FileText(JObj(<< Item(C, JObj(<< Item(RATING, JStr(<<"a", "b", "c">>)),
                                     Item(YEAR, JNum(<<"2", "0", "2", "4">>)) >>)) >>)) }

--------------------------------------------------------------------------
(* The program *)

VARIABLES
  file,      \* movies.json
  movies,    \* the dict main holds, as its items in order
  pc,        \* "start", "Running", "Terminated" or "Raised"
  raised,    \* the exception that left main, or "none"
  last,      \* the last step: the branch of main, whether it called
             \* save_movies, how the write went, and the messages printed
  failures   \* how many writes have failed

vars == <<file, movies, pc, raised, last, failures>>

Step(op, r, io) ==
  [op |-> op, saved |-> r.saved, io |-> IF r.saved THEN io ELSE "none",
   said |-> [i \in 1..Len(r.out) |-> r.out[i].msg]]

Init ==
  /\ file \in InitialFiles
  /\ movies = <<>>
  /\ pc = "start"
  /\ raised = "none"
  /\ last = [op |-> "none", saved |-> FALSE, io |-> "none", said |-> <<>>]
  /\ failures = 0

\* the state after a handler returned or raised
Finish(op, r, io) ==
  /\ movies' = r.movies
  /\ file' = r.file
  /\ raised' = r.raised
  /\ pc' = IF r.raised = "none" THEN "Running" ELSE "Raised"
  /\ last' = Step(op, r, io)
  /\ failures' = IF r.saved /\ io # "ok" THEN failures + 1 ELSE failures

\* the choice read at the menu
ReadChoice(text) ==
  IF text = EOF THEN [eof |-> TRUE, ok |-> FALSE, n |-> 0]
  ELSE [eof |-> FALSE, ok |-> ParseInt(text).ok, n |-> ParseInt(text).val.m]

\* the answers that main takes for choice n
Choosing(n) ==
  {c \in MenuInputs : ~ReadChoice(c).eof /\ ReadChoice(c).ok /\ ReadChoice(c).n = n}

\* how a write may go: a write may fail while failures are left
Writes == IF failures < MaxFailures THEN IoOutcomes ELSE {"ok"}

\* the answers add_movie reads: a prompt it does not reach reads None
RatingAnswers(lines) ==
  IF ReadTitle(lines) = EOF THEN {None} ELSE RatingInputs \cup {EOF}
YearAnswers(r) ==
  IF r \in {None, EOF} \/ ~ReadRating(r).ok THEN {None} ELSE YearInputs \cup {EOF}

\* movies = load_movies(FILE_NAME)
Load ==
  /\ pc = "start"
  /\ LET r == load_movies(file)
     IN Finish("load", Outcome(r.movies, file, r.out, r.raised, FALSE), "none")

\* input() at the menu meets the end of input
ChooseEOF ==
  /\ pc = "Running"
  /\ EOF \in MenuInputs
  /\ Finish("eof", Outcome(movies, file, <<>>, "EOFError", FALSE), "none")

\* except ValueError: ... continue
ChooseNonInteger ==
  /\ pc = "Running"
  /\ \E c \in MenuInputs : ~ReadChoice(c).eof /\ ~ReadChoice(c).ok
  /\ Finish("invalid input", Outcome(movies, file,
       <<Said("Invalid input. Please enter a number between 0 and 4.")>>,
       "none", FALSE), "none")

\* choice == 0
ChooseExit ==
  /\ pc = "Running"
  /\ Choosing(0) # {}
  /\ pc' = "Terminated"
  /\ last' = Step("exit", Outcome(movies, file,
       <<Said("Goodbye! Movies App Reloaded.")>>, "none", FALSE), "none")
  /\ UNCHANGED <<file, movies, raised, failures>>

\* choice == 1
ChooseList ==
  /\ pc = "Running"
  /\ Choosing(1) # {}
  /\ Finish("list", list_movies(movies, file), "none")

\* choice == 2
ChooseAdd ==
  /\ pc = "Running"
  /\ Choosing(2) # {}
  /\ \E lines \in TitleLines :
       \E r \in RatingAnswers(lines) :
         \E y \in YearAnswers(r) :
           \E io \in Writes :
             Finish("add", add_movie(movies, file, lines, r, y, io), io)

\* choice == 3
ChooseDelete ==
  /\ pc = "Running"
  /\ Choosing(3) # {}
  /\ \E t \in DeleteInputs \cup {EOF} :
       \E io \in Writes :
         Finish("delete", delete_movie(movies, file, t, io), io)

\* choice == 4
ChooseStatistics ==
  /\ pc = "Running"
  /\ Choosing(4) # {}
  /\ Finish("statistics", display_statistics(movies, file), "none")

\* else: print("Invalid choice. Please select a valid option.")
ChooseOther ==
  /\ pc = "Running"
  /\ \E c \in MenuInputs :
       ~ReadChoice(c).eof /\ ReadChoice(c).ok /\ ReadChoice(c).n \notin 0..4
  /\ Finish("invalid choice", Outcome(movies, file,
       <<Said("Invalid choice. Please select a valid option.")>>,
       "none", FALSE), "none")

\* main
Next ==
  \/ Load
  \/ ChooseEOF
  \/ ChooseNonInteger
  \/ ChooseExit
  \/ ChooseList
  \/ ChooseAdd
  \/ ChooseDelete
  \/ ChooseStatistics
  \/ ChooseOther

Spec == Init /\ [][Next]_vars

--------------------------------------------------------------------------
(* Properties *)

SaveError == "Error saving movies. Please try again."
Range(q) == {q[i] : i \in 1..Len(q)}
Msgs(o) == {o[i].msg : i \in 1..Len(o)}

\* rating answers that are numbers within [0.0, 10.0], with their values
GoodRatings ==
  { [text |-> <<"0">>, val |-> PyFloat(0, 0)],
    [text |-> <<" ", "1", "0", ".", "0">>, val |-> PyFloat(10, 0)],
    [text |-> <<"7", ".", "5">>, val |-> PyFloat(75, 1)] }

\* rating answers that are not
BadRatings ==
  { <<"-", "0", ".", "1">>, <<"1", "0", ".", "1">>, <<"1", "1", ".", "0">>,
    <<"-", "1", ".", "0">>, <<"a", "b", "c">>, <<>>, <<"n", "a", "n">>,
    <<"i", "n", "f">> }

\* year answers that are integers within [1800, 2024], with their values
GoodYears ==
  { [text |-> <<"1", "8", "0", "0">>, val |-> PyInt(1800)],
    [text |-> <<"2", "0", "2", "4">>, val |-> PyInt(2024)] }

\* year answers that are not
BadYears ==
  { <<"1", "7", "9", "9">>, <<"2", "0", "2", "5">>,
    <<"1", "9", "9", "9", ".", "0">>, <<"a", "b", "c">>, <<>> }

\* answers to the title prompts, with the title add_movie takes from them
GoodTitles ==
  { [lines |-> <<A>>, title |-> A],
    [lines |-> <<Blank, <<" ", "B", " ">> >>, title |-> B],
    [lines |-> << <<>>, Blank, A >>, title |-> A] }

\* the delete answers, with the titles they stand for
DeleteTitles ==
  { [text |-> A, title |-> A], [text |-> <<" ", "B", " ">>, title |-> B],
    [text |-> C, title |-> C], [text |-> <<>>, title |-> <<>>] }

\* every entry of d other than the one for title is in e, with its value
OthersKept(d, e, title) ==
  \A k \in Keys(d) \ {title} : DictHas(e, k) /\ DictGet(e, k) = DictGet(d, k)

\* the keys of e come in the order they have in d
SameOrder(d, e) ==
  \A i, j \in 1..Len(e) :
    i < j => \E a, b \in 1..Len(d) : a < b /\ d[a].key = e[i].key /\ d[b].key = e[j].key

UniqueKeys(d) == \A i, j \in 1..Len(d) : d[i].key = d[j].key => i = j

\* an entry as the data model has it
IsMovie(v) ==
  /\ v.t = "dict"
  /\ DictHas(v.items, RATING) /\ DictHas(v.items, YEAR)
  /\ IsNumber(DictGet(v.items, RATING))
  /\ NumLe(PyInt(0), DictGet(v.items, RATING))
  /\ NumLe(DictGet(v.items, RATING), PyInt(10))
  /\ DictGet(v.items, YEAR).t = "int"
  /\ DictGet(v.items, YEAR).m \in 1800..2024

\* C1: in every reachable state every entry of the in-memory catalog has a
\* rating within [0.0, 10.0], a year within [1800, 2024] and a non-empty
\* title, and the titles are unique.
C1_CatalogInvariant ==
  /\ \A i \in 1..Len(movies) : movies[i].key # <<>> /\ IsMovie(movies[i].value)
  /\ UniqueKeys(movies)

\* C2, as claimed: whenever the menu loop is at its prompt, load() of the
\* persisted document yields the in-memory catalog.
C2_PersistedEqualsMemory ==
  pc = "Running" =>
    load_movies(file).raised = "none" /\ load_movies(file).movies = movies

\* C2, amended: whenever the menu loop is at its prompt and no write has
\* failed so far, or the last step was an add or a delete whose write went
\* through, load() of the persisted document yields the in-memory catalog.
C2_PersistedEqualsMemoryAfterWrite ==
  (pc = "Running" /\ (failures = 0 \/ (last.saved /\ last.io = "ok"))) =>
    load_movies(file).raised = "none" /\ load_movies(file).movies = movies

\* C2: a write went through after an earlier one had failed
C2_Witness ==
  /\ pc = "Running" /\ last.saved /\ last.io = "ok"
  /\ failures > 0 /\ Len(movies) >= 2

\* C3: an add_movie whose rating answer is not a number within [0.0, 10.0],
\* or whose year answer is not an integer within [1800, 2024], leaves the
\* in-memory catalog and the persisted document as they were and does not
\* call save, whatever the title, in the catalog already or not.
C3_InvalidAddAborts ==
  pc = "Running" =>
    \A t \in GoodTitles :
      /\ \A r \in BadRatings, y \in {None, <<"2", "0", "2", "4">>} :
           LET res == add_movie(movies, file, t.lines, r, y, "ok")
           IN /\ res.movies = movies /\ res.file = file
              /\ ~res.saved /\ res.raised = "none"
      /\ \A r \in GoodRatings, y \in BadYears :
           LET res == add_movie(movies, file, t.lines, r.text, y, "ok")
           IN /\ res.movies = movies /\ res.file = file
              /\ ~res.saved /\ res.raised = "none"

\* C3: an add was turned down for its rating, with movies in the catalog
C3_Witness ==
  /\ pc = "Running" /\ last.op = "add" /\ ~last.saved
  /\ last.said = <<"Invalid rating. Please enter a number between 0.0 and 10.0.">>
  /\ movies # <<>> /\ file.kind = "text"

\* what delete_movie does to the catalog, however the write goes
DeleteFrame ==
  pc = "Running" =>
    \A t \in DeleteTitles, io \in IoOutcomes :
      LET res == delete_movie(movies, file, t.text, io)
      IN IF ~DictHas(movies, t.title)
         THEN /\ res.movies = movies /\ res.file = file /\ ~res.saved
              /\ res.out = <<[msg |-> "not found", title |-> t.title]>>
         ELSE /\ Keys(res.movies) = Keys(movies) \ {t.title}
              /\ Len(res.movies) = Len(movies) - 1
              /\ OthersKept(movies, res.movies, t.title)
              /\ SameOrder(movies, res.movies)
              /\ res.saved /\ res.raised = "none"

\* C4, as claimed: delete_movie with a title not in the catalog changes
\* nothing and reports not-found; with a title in it, it removes exactly
\* that entry, leaves the others, and persists the updated catalog.
C4_DeletePersists ==
  /\ DeleteFrame
  /\ (last.op = "delete" /\ last.saved) =>
       load_movies(file).raised = "none" /\ load_movies(file).movies = movies

\* C4, amended: ... it removes exactly that entry, leaves the others, and
\* calls save, which persists the updated catalog unless the write fails.
C4_DeletePersistsUnlessWriteFails ==
  /\ DeleteFrame
  /\ (last.op = "delete" /\ last.saved /\ last.io = "ok") =>
       load_movies(file).raised = "none" /\ load_movies(file).movies = movies

\* C4: a delete removed an entry, left another and wrote the file
C4_Witness ==
  /\ pc = "Running" /\ last.op = "delete" /\ last.saved /\ last.io = "ok"
  /\ movies # <<>>

\* C5: an add_movie with a valid title, rating and year sets the entry of
\* that title to the entered rating and year, leaves the other entries as
\* they were, and calls save; a title already there is overwritten, so the
\* number of entries does not grow and the title stays one key.
C5_AddSetsEntry ==
  pc = "Running" =>
    \A t \in GoodTitles, r \in GoodRatings, y \in GoodYears, io \in IoOutcomes :
      LET res == add_movie(movies, file, t.lines, r.text, y.text, io)
      IN /\ res.raised = "none" /\ res.saved
         /\ DictHas(res.movies, t.title)
         /\ DictGet(res.movies, t.title) = Movie(r.val, y.val)
         /\ Keys(res.movies) = Keys(movies) \cup {t.title}
         /\ OthersKept(movies, res.movies, t.title)
         /\ UniqueKeys(movies) => UniqueKeys(res.movies)
         /\ DictHas(movies, t.title) => Len(res.movies) = Len(movies)

\* C5: an add went through and the catalog holds two movies or more
C5_Witness ==
  /\ pc = "Running" /\ last.op = "add" /\ last.saved
  /\ "added successfully" \in Range(last.said)
  /\ Len(movies) >= 2

\* C6: load() returns an empty catalog and raises nothing when the file is
\* absent, unreadable, not parseable, or parses to something that is no
\* mapping.
C6_LoadTolerant ==
  ( /\ last.op = "load"
    /\ \/ file.kind \in {"absent", "unreadable"}
       \/ file.kind = "text" /\ file.json.j # "object" ) =>
    pc = "Running" /\ raised = "none" /\ movies = <<>>

\* C7: the menu loop ends only on selection 0, and no error leaves it.
C7_OnlyExitTerminates ==
  /\ pc # "Raised" /\ raised = "none"
  /\ pc = "Terminated" => last.op = "exit"

\* C8: when the write of an add or a delete fails, a diagnostic is printed,
\* control returns to the menu, and the in-memory catalog is what it was
\* when save was called: the entry added is there, the entry deleted is not.
C8_WriteFailureKeepsMemory ==
  /\ (last.saved /\ last.io # "ok") =>
       pc = "Running" /\ raised = "none" /\ SaveError \in Range(last.said)
  /\ pc = "Running" =>
       \A io \in IoOutcomes \ {"ok"} :
         /\ \A t \in GoodTitles, r \in GoodRatings, y \in GoodYears :
              LET res == add_movie(movies, file, t.lines, r.text, y.text, io)
              IN /\ res.raised = "none" /\ SaveError \in Msgs(res.out)
                 /\ DictHas(res.movies, t.title)
                 /\ DictGet(res.movies, t.title) = Movie(r.val, y.val)
                 /\ OthersKept(movies, res.movies, t.title)
         /\ \A t \in DeleteTitles :
              DictHas(movies, t.title) =>
                LET res == delete_movie(movies, file, t.text, io)
                IN /\ res.raised = "none" /\ SaveError \in Msgs(res.out)
                   /\ ~DictHas(res.movies, t.title)
                   /\ OthersKept(movies, res.movies, t.title)

\* C8: the write of an add failed after open() had truncated the file
C8_Witness ==
  /\ pc = "Running" /\ last.op = "add" /\ last.saved /\ last.io = "write_fails"
  /\ movies # <<>> /\ file = FileText(NotJson)

\* C9: a menu step that lists, shows statistics, or reads a selection that
\* is no integer or no option leaves the in-memory catalog and the
\* persisted document as they were, and the loop goes on.
C9_ReadOnlySteps ==
  [][ ( /\ pc = "Running"
        /\ last'.op \in {"list", "statistics", "invalid input", "invalid choice"} ) =>
      ( movies' = movies /\ file' = file /\ pc' = "Running" ) ]_vars

\* every entry of the catalog has a numeric rating
Rated(d) ==
  \A i \in 1..Len(d) :
    /\ d[i].value.t = "dict"
    /\ DictHas(d[i].value.items, RATING)
    /\ IsNumber(DictGet(d[i].value.items, RATING))

RatingOf(d, i) == DictGet(d[i].value.items, RATING)

\* titles are the titles of d rated r, each once, in the order of d
AllRated(d, r, titles) ==
  /\ Range(titles) = {d[i].key : i \in {j \in 1..Len(d) : NumEq(RatingOf(d, j), r)}}
  /\ \A i, j \in 1..Len(titles) :
       i < j => \E a, b \in 1..Len(d) :
                  a < b /\ d[a].key = titles[i] /\ d[b].key = titles[j]

\* what display_statistics reports for a catalog that is not empty
BestAndWorst ==
  LET res == display_statistics(movies, file)
      best == res.out[3]
      worst == res.out[4]
  IN /\ res.raised = "none" /\ Len(res.out) = 4
     /\ best.msg = "Best movies" /\ worst.msg = "Worst movies"
     /\ \E i \in 1..Len(movies) : NumEq(RatingOf(movies, i), best.rating)
     /\ \A i \in 1..Len(movies) : NumLe(RatingOf(movies, i), best.rating)
     /\ \E i \in 1..Len(movies) : NumEq(RatingOf(movies, i), worst.rating)
     /\ \A i \in 1..Len(movies) : NumLe(worst.rating, RatingOf(movies, i))
     /\ AllRated(movies, best.rating, best.titles)
     /\ AllRated(movies, worst.rating, worst.titles)
     /\ NumEq(best.rating, worst.rating) =>
          /\ Range(best.titles) = Keys(movies)
          /\ Range(worst.titles) = Keys(movies)

\* C10: for a catalog that is not empty, display_statistics reports as best
\* the maximum rating with all the titles rated so and no others, and as
\* worst the minimum rating with all the titles rated so, each in the
\* catalog's order; when the maximum is the minimum both lists hold every
\* title.  For an empty catalog it reports "No movies found." and nothing
\* else.
C10_BestAndWorst ==
  pc = "Running" =>
    /\ movies = <<>> =>
         display_statistics(movies, file).out = <<Said("No movies found.")>>
    /\ movies # <<>> => BestAndWorst

\* The same for the catalogs whose entries all have a numeric rating, which
\* is what add_movie writes: there the report is as C10 has it.
BestAndWorstWhenRated ==
  pc = "Running" =>
    /\ movies = <<>> =>
         display_statistics(movies, file).out = <<Said("No movies found.")>>
    /\ (movies # <<>> /\ Rated(movies)) => BestAndWorst

\* statistics were shown for three movies, two of them tied for best
ShownWithTie ==
  /\ pc = "Running" /\ last.op = "statistics" /\ Len(movies) = 3
  /\ "Best movies" \in Range(last.said)
  /\ Rated(movies)
  /\ Len(display_statistics(movies, file).out[3].titles) = 2
  /\ Len(display_statistics(movies, file).out[4].titles) = 1

==========================================================================
